---- MODULE Spec2Model ----
(***************************************************************************)
(* Model of the chat agent of graphflix-backend (src/chat_agent.py): the   *)
(* intent router text_to_aql_to_text, the specialised handlers with their  *)
(* fallback chains, the generic handler and the boundary                   *)
(* query_movie_graph.  The graph store (db_client.aql.execute) and the     *)
(* language model (llm.invoke) are external: each call nondeterministically*)
(* returns rows, returns no rows, or raises.                               *)
(*                                                                         *)
(* Strings are TLA+ strings; substring tests, lower-casing, the regular    *)
(* expression and int() are computed character by character.               *)
(***************************************************************************)
EXTENDS Integers, Sequences, FiniteSets, TLC

VARIABLES pc, query, handler, arg, issued, llmCalls, result_data, range, response, result,
          store, call, step, asked, central, reply

\* the state of a request of the REST interface: the graph store, the request,
\* the place of its handler, the store queries it issued, what its first
\* query resolved, and the HTTP response
apiVars == <<store, call, step, asked, central, reply>>

\* the state of a chat request
chatVars == <<pc, query, handler, arg, issued, llmCalls, result_data, range, response, result>>

vars == <<chatVars, apiVars>>

(***************************************************************************)
(* Bounds of the model.                                                    *)
(***************************************************************************)
\* a chat query is at most MaxWords phrases of Vocabulary joined by blanks
MaxWords == 2
\* the store returns at most MaxRows rows to a query
MaxRows == 1

(***************************************************************************)
(* Character-level string functions (Python str / re semantics).           *)
(***************************************************************************)
UpperAlpha == "ABCDEFGHIJKLMNOPQRSTUVWXYZ"
LowerAlpha == "abcdefghijklmnopqrstuvwxyz"
Digits == "0123456789"

CharAt(s, i) == SubSeq(s, i, i)

\* index of character c in the alphabet string a, 0 when absent
IndexIn(c, a) ==
  IF \E i \in 1..Len(a) : CharAt(a, i) = c
    THEN CHOOSE i \in 1..Len(a) : CharAt(a, i) = c
    ELSE 0

DigitChars == { CharAt(Digits, i) : i \in 1..Len(Digits) }
UpperChars == { CharAt(UpperAlpha, i) : i \in 1..Len(UpperAlpha) }
LowerChars == { CharAt(LowerAlpha, i) : i \in 1..Len(LowerAlpha) }

\* the lower-case letter of each upper-case letter
ToLower == [c \in UpperChars |-> CharAt(LowerAlpha, IndexIn(c, UpperAlpha))]

\* the value of each decimal digit
DigitValue == [c \in DigitChars |-> IndexIn(c, Digits) - 1]

IsDigit(c) == c \in DigitChars

\* \w of the re module, for ASCII text
IsWordChar(c) == c \in UpperChars \/ c \in LowerChars \/ c \in DigitChars \/ c = "_"

LowerChar(c) == IF c \in UpperChars THEN ToLower[c] ELSE c

RECURSIVE Lower(_)
\* str.lower(): every character lower-cased, the string taken in two halves
Lower(s) ==
  IF Len(s) = 0 THEN ""
  ELSE IF Len(s) = 1 THEN LowerChar(s)
  ELSE Lower(SubSeq(s, 1, Len(s) \div 2)) \o Lower(SubSeq(s, Len(s) \div 2 + 1, Len(s)))

\* Python's  sub in s
Contains(sub, s) ==
  \E i \in 1..(Len(s) - Len(sub) + 1) : SubSeq(s, i, i + Len(sub) - 1) = sub

\* any(w in s for w in ws), ws a sequence of strings
AnyIn(ws, s) == \E k \in 1..Len(ws) : Contains(ws[k], s)

RECURSIVE ParseInt(_)
\* int() of a string of decimal digits
ParseInt(s) ==
  IF Len(s) = 0 THEN 0
  ELSE 10 * ParseInt(SubSeq(s, 1, Len(s) - 1)) + DigitValue[CharAt(s, Len(s))]

\* \b before position i of s (i in 1..Len(s)+1)
WordBoundary(s, i) ==
  LET before == i > 1 /\ IsWordChar(CharAt(s, i - 1))
      after  == i <= Len(s) /\ IsWordChar(CharAt(s, i))
  IN  before # after

\* the decade alternatives 19\d0s and 20\d0s, prefix being "19" or "20"
DecadeAt(s, i, prefix) ==
  /\ i + 4 <= Len(s)
  /\ SubSeq(s, i, i + 1) = prefix
  /\ IsDigit(CharAt(s, i + 2))
  /\ CharAt(s, i + 3) = "0"
  /\ CharAt(s, i + 4) = "s"
  /\ WordBoundary(s, i + 5)

\* the alternative \d{4}
FourDigitsAt(s, i) ==
  /\ i + 3 <= Len(s)
  /\ \A k \in 0..3 : IsDigit(CharAt(s, i + k))
  /\ WordBoundary(s, i + 4)

\* length of the match of \b(19\d0s|20\d0s|\d{4})\b at position i, 0 if none;
\* the alternatives are tried in order
YearMatchLen(s, i) ==
  IF ~WordBoundary(s, i) THEN 0
  ELSE IF DecadeAt(s, i, "19") \/ DecadeAt(s, i, "20") THEN 5
  ELSE IF FourDigitsAt(s, i) THEN 4
  ELSE 0

\* the first position from i on where the expression matches, 0 if none
NextYearMatch(s, i) ==
  LET at == { j \in i..Len(s) : YearMatchLen(s, j) > 0 }
  IN  IF at = {} THEN 0 ELSE CHOOSE j \in at : \A k \in at : j <= k

RECURSIVE FindYearsFrom(_, _)
\* re.findall scanning from position i: leftmost, non-overlapping matches
FindYearsFrom(s, i) ==
  LET j == NextYearMatch(s, i)
  IN  IF j = 0 THEN <<>>
      ELSE <<SubSeq(s, j, j + YearMatchLen(s, j) - 1)>>
             \o FindYearsFrom(s, j + YearMatchLen(s, j))

FindYears(s) == FindYearsFrom(s, 1)

(***************************************************************************)
(* Inputs: chat queries built from a small vocabulary of phrases.          *)
(***************************************************************************)
Vocabulary ==
  << "movies similar to Titanic from the 1990s", "jurassic", "comedy", "thriller",
     "best", "1990s", "2021", "90s", "movies", "genre" >>

RECURSIVE Join(_)
\* " ".join(ws)
Join(ws) ==
  IF Len(ws) = 0 THEN ""
  ELSE IF Len(ws) = 1 THEN ws[1]
  ELSE ws[1] \o " " \o Join(Tail(ws))

\* every query of at most MaxWords phrases
Queries ==
  { Join([i \in 1..Len(ws) |-> Vocabulary[ws[i]]]) :
      ws \in UNION { [1..n -> 1..Len(Vocabulary)] : n \in 0..MaxWords } }

(***************************************************************************)
(* The external store and model.                                           *)
(***************************************************************************)
\* db_client.aql.execute: a list of n rows (nested: the rows' nested list,
\* similar_movies or genres, is non-empty), or an exception (syntax: its text
\* contains "syntax error")
StoreRows == { [kind |-> "rows", n |-> n, nested |-> b, syntax |-> FALSE] :
                 n \in 1..MaxRows, b \in BOOLEAN }
StoreEmpty == { [kind |-> "rows", n |-> 0, nested |-> FALSE, syntax |-> FALSE] }
Raises == { [kind |-> "raise", n |-> 0, nested |-> FALSE, syntax |-> b] : b \in BOOLEAN }
\* an exception where the except clause does not look at its text
Raise == [kind |-> "raise", n |-> 0, nested |-> FALSE, syntax |-> FALSE]
\* outcomes of a query whose rows have a nested list that the handler inspects
NestedOutcomes == StoreRows \cup StoreEmpty \cup {Raise}
\* outcomes of a query whose rows are only listed
PlainOutcomes == { o \in NestedOutcomes : o.kind = "rows" => o.nested = (o.n > 0) }
\* outcomes of the generated query, whose failure text the handler inspects
GeneratedOutcomes == PlainOutcomes \cup Raises
\* llm.invoke: a completion, or an exception
Completion == [kind |-> "rows", n |-> 1, nested |-> TRUE, syntax |-> FALSE]
LlmOutcomes == {Completion, Raise}
\* llm.invoke inside the try block of standard_query_processing
PhraseOutcomes == {Completion} \cup Raises

(***************************************************************************)
(* The intent router.                                                      *)
(***************************************************************************)
\* the alias table of extract_movie_titles, in dictionary order
common_titles ==
  << [title |-> "toy story",       variations |-> <<"toy story", "toy stories", "toystory", "toy storey">>],
     [title |-> "star wars",       variations |-> <<"star wars", "starwars", "star war">>],
     [title |-> "the matrix",      variations |-> <<"matrix", "the matrix">>],
     [title |-> "jurassic park",   variations |-> <<"jurassic park", "jurassic">>],
     [title |-> "pulp fiction",    variations |-> <<"pulp fiction", "pulpfiction">>],
     [title |-> "the godfather",   variations |-> <<"godfather", "the godfather">>],
     [title |-> "titanic",         variations |-> <<"titanic">>],
     [title |-> "inception",       variations |-> <<"inception">>],
     [title |-> "avatar",          variations |-> <<"avatar">>],
     [title |-> "the dark knight", variations |-> <<"dark knight", "the dark knight", "batman dark knight">>] >>

\* the standard titles one of whose variations occurs in the lower-cased query
extract_movie_titles(q) ==
  LET query_lower == Lower(q)
      found == SelectSeq(common_titles, LAMBDA e : AnyIn(e.variations, query_lower))
  IN  [i \in 1..Len(found) |-> found[i].title]

SimilarityKeywords == <<"similar", "like", "related">>
\* the genres that open the genre branch
BranchGenres == <<"comedy", "action", "drama", "horror", "sci-fi">>
\* the genres collected inside the genre branch
GenreTable == <<"comedy", "action", "drama", "horror", "sci-fi", "thriller", "romance", "animation">>
Periods == <<"90s", "80s", "2000s", "1990">>

NoArg == [title |-> "", genre |-> "", is_top_rated |-> FALSE, year_str |-> ""]

\* the condition of the first branch
SimilarityBranch(q) ==
  AnyIn(SimilarityKeywords, Lower(q)) /\ extract_movie_titles(q) # <<>>

\* the condition of the second branch
GenreBranch(q) == AnyIn(BranchGenres, Lower(q))

\* the condition of the third branch
YearBranch(q) == AnyIn(Periods, Lower(q))

\* the last detected title instead of the first
primary_movie_last(q) == extract_movie_titles(q)[Len(extract_movie_titles(q))]

\* the title handed to the similarity handler
primary_movie(q) == extract_movie_titles(q)[1]

\* the genres of the table that occur in the query, in table order
genres_in(q) == SelectSeq(GenreTable, LAMBDA g : Contains(g, Lower(q)))

\* the is_top_rated argument
IsTopRated(q) == Contains("top", Lower(q)) \/ Contains("best", Lower(q))

\* the handler the router calls and its arguments
text_to_aql_to_text(q) ==
  IF SimilarityBranch(q)
    THEN [handler |-> "similar", arg |-> [NoArg EXCEPT !.title = primary_movie(q)]]
  ELSE IF GenreBranch(q)
    THEN IF genres_in(q) # <<>>
           THEN [handler |-> "genre",
                 arg |-> [NoArg EXCEPT !.genre = genres_in(q)[1], !.is_top_rated = IsTopRated(q)]]
           ELSE [handler |-> "generic", arg |-> NoArg]
  ELSE IF YearBranch(q)
    THEN IF FindYears(q) # <<>>
           THEN [handler |-> "year", arg |-> [NoArg EXCEPT !.year_str = FindYears(q)[1]]]
           ELSE [handler |-> "generic", arg |-> NoArg]
  ELSE [handler |-> "generic", arg |-> NoArg]

(***************************************************************************)
(* Pure parts of the handlers.                                             *)
(***************************************************************************)
\* a decade of eleven years
year_range_eleven(year_str) ==
  IF Len(year_str) = 4
    THEN [start_year |-> ParseInt(year_str), end_year |-> ParseInt(year_str)]
    ELSE [start_year |-> ParseInt(SubSeq(year_str, 1, 4)),
          end_year   |-> ParseInt(SubSeq(year_str, 1, 4)) + 10]

\* start_year and end_year of handle_year_query
year_range(year_str) ==
  IF Len(year_str) = 4
    THEN [start_year |-> ParseInt(year_str), end_year |-> ParseInt(year_str)]
    ELSE [start_year |-> ParseInt(SubSeq(year_str, 1, 4)),
          end_year   |-> ParseInt(SubSeq(year_str, 1, 4)) + 9]

NoRange == [start_year |-> 0, end_year |-> 0]

movie_terms == <<"movie", "film", "watch", "cinema">>
genre_terms == <<"genre", "category", "type", "comedy", "action", "drama", "horror">>
rating_terms == <<"rate", "rating", "score", "popular", "best", "top", "highest">>

has_movie_terms(q) == AnyIn(movie_terms, Lower(q))
has_genre_terms(q) == AnyIn(genre_terms, Lower(q))
has_rating_terms(q) == AnyIn(rating_terms, Lower(q))

\* the genre template for every query with a genre term
simple_query_genre_only(q) ==
  IF has_movie_terms(q) /\ has_rating_terms(q) THEN "template_popular"
  ELSE IF has_genre_terms(q) THEN "template_popular_with_genres"
  ELSE "template_popular"

\* the template query handle_empty_results issues
simple_query(q) ==
  IF has_movie_terms(q) /\ has_rating_terms(q) THEN "template_popular"
  ELSE IF has_movie_terms(q) /\ has_genre_terms(q) THEN "template_popular_with_genres"
  ELSE "template_popular"

\* the header of the list handle_empty_results answers with
fallback_header(q) ==
  IF has_rating_terms(q) THEN "fallback_popular_interested"
  ELSE IF has_genre_terms(q) THEN "fallback_with_genres"
  ELSE "fallback_popular_database"

\* an empty list taken for results
year_always_has_results(o) == o.n >= 0

\* if year_results, in handle_year_query
year_has_results(o) == o.n > 0

\* a store query: its name, the text interpolated into it, its year range
StoreQuery(name, param, r) == [name |-> name, param |-> param, range |-> r]

\* handle_year_query after the rating-filtered query: the rows are listed,
\* or the relaxed query is tried
year_query_then(o) ==
  IF year_has_results(o) THEN [pc |-> "format", response |-> "year_list"]
  ELSE [pc |-> "year_relaxed", response |-> ""]

\* the rating-filtered query tried again when the relaxed query is empty
year_relaxed_retry(o) ==
  IF o.n > 0 THEN [pc |-> "format", response |-> "year_relaxed_list"]
  ELSE [pc |-> "year_query", response |-> ""]

\* handle_year_query after the relaxed query: the rows are listed, or the
\* handler gives up
year_relaxed_then(o) ==
  IF o.n > 0 THEN [pc |-> "format", response |-> "year_relaxed_list"]
  ELSE [pc |-> "format", response |-> "year_none"]

\* no except clause: the exception leaves query_movie_graph
query_movie_graph_reraise(e) == [kind |-> "raised", text |-> "exception"]

\* except clause of query_movie_graph: the exception becomes a message
query_movie_graph_except(e) == [kind |-> "returned", text |-> "error_message"]

\* every failure inside the try block falls back
standard_query_except_any(e) == "fallback"

\* except clause of standard_query_processing: where a failure inside the
\* try block leads
standard_query_except(e) == IF e.syntax THEN "fallback" ELSE "rephrase"

\* the emptiness test left out
generated_never_empty(o) == FALSE

\* if not result_data, in standard_query_processing
generated_is_empty(o) == o.n = 0


(***************************************************************************)
(* State machine of one chat request.                                      *)
(***************************************************************************)
\* a call of llm.invoke: its purpose and what its prompt is built from
LlmCall(purpose, rows, raw) == [purpose |-> purpose, rows |-> rows, raw |-> raw]

NoResult == [kind |-> "none", text |-> ""]

\* no chat request has arrived
ChatIdle ==
  /\ pc = "idle"
  /\ query = ""
  /\ handler = "none"
  /\ arg = NoArg
  /\ issued = <<>>
  /\ llmCalls = <<>>
  /\ result_data = 0
  /\ range = NoRange
  /\ response = ""
  /\ result = NoResult

\* no request of the REST interface has arrived
ApiIdle ==
  /\ call = [route |-> "none"]
  /\ step = "idle"
  /\ asked = <<>>
  /\ central = ""
  /\ reply = [status |-> 0]

\* a chat request does not look at the graph of the REST interface
Init == ChatIdle /\ ApiIdle /\ store = [layout |-> 1, edges |-> {}]

\* the handler returns the string r to query_movie_graph
\* the store call q with its outcome o, appended to the log of store calls
Issue(q, o) ==
  Append(issued, [name |-> q.name, param |-> q.param, range |-> q.range,
                  outcome |-> o, seq |-> Len(issued) + Len(llmCalls) + 1])

\* the model call c with its outcome o, appended to the log of model calls
Invoke(c, o) ==
  Append(llmCalls, [purpose |-> c.purpose, rows |-> c.rows, raw |-> c.raw,
                    outcome |-> o, seq |-> Len(issued) + Len(llmCalls) + 1])

Respond(r) == /\ response' = r
              /\ pc' = "format"
              /\ result' = result

\* query_movie_graph(q) is called
query_movie_graph(q) ==
  /\ pc = "idle"
  /\ query' = q
  /\ pc' = "route"
  /\ UNCHANGED <<handler, arg, issued, llmCalls, result_data, range, response, result, apiVars>>

\* text_to_aql_to_text chooses the handler
Dispatch ==
  /\ pc = "route"
  /\ handler' = text_to_aql_to_text(query).handler
  /\ arg' = text_to_aql_to_text(query).arg
  /\ pc' = CASE handler' = "similar" -> "find_movie"
             [] handler' = "genre"   -> "genre_query"
             [] handler' = "year"    -> "year_parse"
             [] OTHER                -> "generate"
  /\ UNCHANGED <<query, issued, llmCalls, result_data, range, response, result, apiVars>>

\* handle_similar_movies_query: look the source movie up by title
FindMovie(o) ==
  /\ pc = "find_movie"
  /\ issued' = Issue(StoreQuery("find_movie", arg.title, NoRange), o)
  /\ IF o.kind = "raise" THEN Respond("similar_trouble")
     ELSE IF o.n > 0 THEN pc' = "similar_movies" /\ UNCHANGED <<response, result>>
     ELSE pc' = "find_movie_relaxed" /\ UNCHANGED <<response, result>>
  /\ UNCHANGED <<query, handler, arg, llmCalls, result_data, range, apiVars>>

\* handle_similar_movies_query: look the source movie up by first word
FindMovieRelaxed(o) ==
  /\ pc = "find_movie_relaxed"
  /\ issued' = Issue(StoreQuery("find_movie_relaxed", arg.title, NoRange), o)
  /\ IF o.kind = "raise" THEN Respond("similar_trouble")
     ELSE IF o.n > 0 THEN pc' = "similar_movies" /\ UNCHANGED <<response, result>>
     ELSE Respond("similar_not_found")
  /\ UNCHANGED <<query, handler, arg, llmCalls, result_data, range, apiVars>>

\* handle_similar_movies_query: the similar_to edges of the source movie
SimilarMovies(o) ==
  /\ pc = "similar_movies"
  /\ issued' = Issue(StoreQuery("similar_movies", "", NoRange), o)
  /\ IF o.kind = "raise" THEN Respond("similar_trouble")
     ELSE IF o.n > 0 /\ o.nested THEN Respond("similar_list")
     ELSE pc' = "source_genres" /\ UNCHANGED <<response, result>>
  /\ UNCHANGED <<query, handler, arg, llmCalls, result_data, range, apiVars>>

\* handle_similar_movies_by_genre: the genres of the source movie
SourceGenres(o) ==
  /\ pc = "source_genres"
  /\ issued' = Issue(StoreQuery("source_genres", "", NoRange), o)
  /\ IF o.kind = "raise" THEN Respond("by_genre_trouble")
     ELSE IF o.n > 0 /\ o.nested THEN pc' = "similar_by_genre" /\ UNCHANGED <<response, result>>
     ELSE Respond("by_genre_none")
  /\ UNCHANGED <<query, handler, arg, llmCalls, result_data, range, apiVars>>

\* handle_similar_movies_by_genre: the movies sharing genres
SimilarByGenre(o) ==
  /\ pc = "similar_by_genre"
  /\ issued' = Issue(StoreQuery("similar_by_genre", "", NoRange), o)
  /\ IF o.kind = "raise" THEN Respond("by_genre_trouble")
     ELSE IF o.n > 0 THEN Respond("by_genre_list")
     ELSE Respond("by_genre_none")
  /\ UNCHANGED <<query, handler, arg, llmCalls, result_data, range, apiVars>>

\* handle_genre_query
GenreQuery(o) ==
  /\ pc = "genre_query"
  /\ issued' = Issue(StoreQuery(IF arg.is_top_rated THEN "genre_top_rated" ELSE "genre_popular",
                  arg.genre, NoRange), o)
  /\ IF o.kind = "raise" THEN Respond("genre_trouble")
     ELSE IF o.n > 0
       THEN Respond(IF arg.is_top_rated THEN "genre_top_rated_list" ELSE "genre_popular_list")
     ELSE Respond("genre_none")
  /\ UNCHANGED <<query, handler, arg, llmCalls, result_data, range, apiVars>>

\* handle_year_query: the year range of the token
YearParse ==
  /\ pc = "year_parse"
  /\ range' = year_range(arg.year_str)
  /\ pc' = "year_query"
  /\ UNCHANGED <<query, handler, arg, issued, llmCalls, result_data, response, result, apiVars>>

\* handle_year_query: the movies of the range that have a rating
YearQuery(o) ==
  /\ pc = "year_query"
  /\ issued' = Issue(StoreQuery("year_rated", "", range), o)
  /\ IF o.kind = "raise" THEN Respond("year_trouble")
     ELSE /\ pc' = year_query_then(o).pc
          /\ response' = year_query_then(o).response
          /\ result' = result
  /\ UNCHANGED <<query, handler, arg, llmCalls, result_data, range, apiVars>>

\* handle_year_query: the movies of the range, rated or not
YearRelaxed(o) ==
  /\ pc = "year_relaxed"
  /\ issued' = Issue(StoreQuery("year_relaxed", "", range), o)
  /\ IF o.kind = "raise" THEN Respond("year_trouble")
     ELSE /\ pc' = year_relaxed_then(o).pc
          /\ response' = year_relaxed_then(o).response
          /\ result' = result
  /\ UNCHANGED <<query, handler, arg, llmCalls, result_data, range, apiVars>>

\* standard_query_processing: the model writes the query; the call is outside
\* the try block, a failure reaches query_movie_graph
Generate(o) ==
  /\ pc = "generate"
  /\ llmCalls' = Invoke(LlmCall("generate", 0, ""), o)
  /\ IF o.kind = "raise"
       THEN pc' = "done" /\ result' = query_movie_graph_except(o)
       ELSE pc' = "execute" /\ result' = result
  /\ UNCHANGED <<query, handler, arg, issued, result_data, range, response, apiVars>>

\* standard_query_processing: the generated query is executed
Execute(o) ==
  /\ pc = "execute"
  /\ issued' = Issue(StoreQuery("generated", query, NoRange), o)
  /\ IF o.kind = "raise"
       THEN IF standard_query_except(o) = "fallback"
              THEN pc' = "empty_results" /\ UNCHANGED <<response, result>>
              ELSE Respond("generic_rephrase")
     ELSE IF generated_is_empty(o) THEN pc' = "empty_results" /\ UNCHANGED <<response, result>>
     ELSE pc' = "phrase" /\ UNCHANGED <<response, result>>
  /\ result_data' = o.n
  /\ UNCHANGED <<query, handler, arg, llmCalls, range, apiVars>>

\* standard_query_processing: the model phrases the rows; inside the try block
Phrase(o) ==
  /\ pc = "phrase"
  /\ llmCalls' = Invoke(LlmCall("phrase", result_data, ""), o)
  /\ IF o.kind = "raise"
       THEN IF standard_query_except(o) = "fallback"
              THEN pc' = "empty_results" /\ UNCHANGED <<response, result>>
              ELSE Respond("generic_rephrase")
     ELSE Respond("generic_phrased")
  /\ UNCHANGED <<query, handler, arg, issued, result_data, range, apiVars>>

\* handle_empty_results
EmptyResults(o) ==
  /\ pc = "empty_results"
  /\ issued' = Issue(StoreQuery(simple_query(query), "", NoRange), o)
  /\ IF o.kind = "raise" THEN Respond("fallback_trouble")
     ELSE IF o.n > 0 THEN Respond(fallback_header(query))
     ELSE Respond("fallback_none")
  /\ UNCHANGED <<query, handler, arg, llmCalls, result_data, range, apiVars>>

\* query_movie_graph: every handler returns a string, which the model rewrites
Format(o) ==
  /\ pc = "format"
  /\ llmCalls' = Invoke(LlmCall("format", 0, response), o)
  /\ pc' = "done"
  /\ result' = IF o.kind = "raise" THEN query_movie_graph_except(o)
               ELSE [kind |-> "returned", text |-> "final_response"]
  /\ UNCHANGED <<query, handler, arg, issued, result_data, range, response, apiVars>>

\* a chat request arrives with some query
Receive == pc = "idle" /\ \E q \in Queries : query_movie_graph(q)

Next ==
  \/ Receive
  \/ Dispatch
  \/ \E o \in PlainOutcomes : FindMovie(o)
  \/ \E o \in PlainOutcomes : FindMovieRelaxed(o)
  \/ \E o \in NestedOutcomes : SimilarMovies(o)
  \/ \E o \in NestedOutcomes : SourceGenres(o)
  \/ \E o \in PlainOutcomes : SimilarByGenre(o)
  \/ \E o \in PlainOutcomes : GenreQuery(o)
  \/ YearParse
  \/ \E o \in PlainOutcomes : YearQuery(o)
  \/ \E o \in PlainOutcomes : YearRelaxed(o)
  \/ \E o \in LlmOutcomes : Generate(o)
  \/ \E o \in GeneratedOutcomes : Execute(o)
  \/ \E o \in PhraseOutcomes : Phrase(o)
  \/ \E o \in PlainOutcomes : EmptyResults(o)
  \/ \E o \in LlmOutcomes : Format(o)

Spec == Init /\ [][Next]_vars

(***************************************************************************)
(* Vocabulary of the properties.                                           *)
(***************************************************************************)
\* the lower-cased text low contains a similarity keyword
HasSimilarityKeyword(low) ==
  Contains("similar", low) \/ Contains("like", low) \/ Contains("related", low)

\* the indices of the alias table entries one of whose aliases occurs in low
DetectedEntries(low) ==
  { k \in 1..Len(common_titles) :
      \E v \in 1..Len(common_titles[k].variations) :
        Contains(common_titles[k].variations[v], low) }

\* the similarity rule of the router applies to the lower-cased text low
SimilarityRuleApplies(low) == HasSimilarityKeyword(low) /\ DetectedEntries(low) # {}

\* the first detected title of low
FirstDetectedTitle(low) ==
  LET d == DetectedEntries(low)
  IN  common_titles[CHOOSE k \in d : \A j \in d : k <= j].title

\* the genre keywords of the router's genre table that occur in low
GenreKeywordsIn(low) ==
  { GenreTable[k] : k \in { j \in 1..Len(GenreTable) : Contains(GenreTable[j], low) } }

\* the text q, lower-cased to low, contains a year or decade token
HasYearToken(q, low) ==
  \/ \E i \in 1..Len(q) : YearMatchLen(q, i) > 0
  \/ Contains("90s", low) \/ Contains("80s", low)
  \/ Contains("2000s", low) \/ Contains("1990", low)

Dispatched == handler # "none"

IssuedNames == { issued[i].name : i \in 1..Len(issued) }
Purposes == { llmCalls[i].purpose : i \in 1..Len(llmCalls) }

SimilarityStages == {"find_movie", "find_movie_relaxed", "similar_movies", "source_genres", "similar_by_genre"}
GenreStages == {"genre_top_rated", "genre_popular"}
YearStages == {"year_rated", "year_relaxed"}
Templates == {"template_popular", "template_popular_with_genres"}
GenericStages == {"generated"} \cup Templates

(***************************************************************************)
(* C1                                                                      *)
(***************************************************************************)
\* C1: a query with a similarity keyword and an alias of the title table is
\* dispatched to the similarity handler with the first detected title, and
\* the genre, year and generic handlers do not act on it, whatever genre
\* keywords or year tokens it contains.
C1_SimilarityDispatch ==
  Dispatched =>
    LET low == Lower(query)
    IN  (HasSimilarityKeyword(low) /\ DetectedEntries(low) # {})
          => /\ handler = "similar"
             /\ arg.title = FirstDetectedTitle(low)
             /\ IssuedNames \subseteq SimilarityStages
             /\ "generate" \notin Purposes

\* a similarity query that also names a genre and a decade has been served
C1_Witness ==
  /\ pc = "done"
  /\ query = "comedy movies similar to Titanic from the 1990s"
  /\ handler = "similar"
  /\ arg.title = "titanic"

(***************************************************************************)
(* C2                                                                      *)
(***************************************************************************)
\* C2: a query to which the similarity rule does not apply and that contains
\* a genre keyword of the genre table is dispatched to the genre handler with
\* a genre occurring in the query, is_top_rated being true exactly when the
\* text contains "top" or "best".
C2_GenreDispatch ==
  Dispatched =>
    LET low == Lower(query)
    IN  (~SimilarityRuleApplies(low) /\ GenreKeywordsIn(low) # {})
          => /\ handler = "genre"
             /\ arg.genre \in GenreKeywordsIn(low)
             /\ arg.is_top_rated = (Contains("top", low) \/ Contains("best", low))

(***************************************************************************)
(* C3                                                                      *)
(***************************************************************************)
\* C3: a query to which neither the similarity rule nor the genre rule
\* applies and that contains a year or decade token is dispatched to the
\* year handler, not to the generic handler.
C3_YearDispatch ==
  Dispatched =>
    LET low == Lower(query)
    IN  (~SimilarityRuleApplies(low) /\ GenreKeywordsIn(low) = {} /\ HasYearToken(query, low))
          => handler = "year"

(***************************************************************************)
(* C4                                                                      *)
(***************************************************************************)
\* C4: a query with both a genre keyword and a year token goes to the
\* similarity handler when the similarity rule applies to it and to the genre
\* handler otherwise, never to the year handler or the generic handler.
C4_RouterPriority ==
  Dispatched =>
    LET low == Lower(query)
    IN  (GenreKeywordsIn(low) # {} /\ HasYearToken(query, low))
          => IF SimilarityRuleApplies(low) THEN handler = "similar" ELSE handler = "genre"

(***************************************************************************)
(* Logs of the calls of one request.                                       *)
(***************************************************************************)
\* the store calls named name
CallsOf(name) == { i \in 1..Len(issued) : issued[i].name = name }
\* the model calls of purpose p
InvocationsOf(p) == { i \in 1..Len(llmCalls) : llmCalls[i].purpose = p }

TemplateIssued == IssuedNames \cap Templates # {}

\* the model's query-construction call failed
ConstructionFailed == \E i \in InvocationsOf("generate") : llmCalls[i].outcome.kind = "raise"
\* the execution of the generated query failed; with a syntax error
ExecutionFailed == \E i \in CallsOf("generated") : issued[i].outcome.kind = "raise"
ExecutionSyntaxError ==
  \E i \in CallsOf("generated") : issued[i].outcome.kind = "raise" /\ issued[i].outcome.syntax
\* the generated query executed and returned zero rows
ExecutionEmpty ==
  \E i \in CallsOf("generated") : issued[i].outcome.kind = "rows" /\ issued[i].outcome.n = 0
\* the phrasing call failed with a text containing "syntax error"
PhraseSyntaxError ==
  \E i \in InvocationsOf("phrase") : llmCalls[i].outcome.kind = "raise" /\ llmCalls[i].outcome.syntax

\* the handler has returned, or the request is over
HandlerOver == pc \in {"format", "done"}

(***************************************************************************)
(* C5                                                                      *)
(***************************************************************************)
\* C5 as stated: in the generic handler a failed query-construction call, any
\* failure while executing the generated query, and a generated query that
\* returns zero rows each lead to the fallback template query being issued.
C5_AllFailuresFallBack ==
  (HandlerOver /\ handler = "generic"
     /\ (ConstructionFailed \/ ExecutionFailed \/ ExecutionEmpty))
    => TemplateIssued

\* C5 amended: in the generic handler the fallback template query is issued
\* exactly when the generated query returned zero rows or a failure inside the
\* try block (executing the query, phrasing its rows) has a text containing
\* "syntax error"; a failed construction call issues no store query at all
\* and ends in the error message of query_movie_graph, and any other
\* execution failure ends in the "try rephrasing" message without a fallback.
C5_FallbackOnEmptyOrSyntaxError ==
  (HandlerOver /\ handler = "generic")
    => /\ TemplateIssued <=> (ExecutionEmpty \/ ExecutionSyntaxError \/ PhraseSyntaxError)
       /\ ConstructionFailed =>
            (issued = <<>> /\ result = [kind |-> "returned", text |-> "error_message"])
       /\ (ExecutionFailed /\ ~ExecutionSyntaxError) => response = "generic_rephrase"

\* a generated query failed with a syntax error and the template was issued
C5_Witness ==
  /\ pc = "done"
  /\ handler = "generic"
  /\ ExecutionSyntaxError
  /\ TemplateIssued

(***************************************************************************)
(* C6                                                                      *)
(***************************************************************************)
\* the program points of a request that is not over
Running ==
  {"idle", "route", "find_movie", "find_movie_relaxed", "similar_movies",
   "source_genres", "similar_by_genre", "genre_query", "year_parse",
   "year_query", "year_relaxed", "generate", "execute", "phrase",
   "empty_results", "format"}

\* C6: whatever the store and the model do at each call (rows, zero rows, an
\* exception), query_movie_graph ends with a user-facing message: no
\* exception escapes, a request is either at a program point of the handlers
\* with no result yet or over with a returned message, and it makes at most
\* six external calls (the five store queries of the similarity chain and the
\* formatting call).
C6_NeverRaises ==
  /\ result.kind # "raised"
  /\ pc = "done" => result.kind = "returned" /\ result.text \in {"final_response", "error_message"}
  /\ pc # "done" => pc \in Running /\ result.kind = "none"
  /\ Len(issued) + Len(llmCalls) <= 6

\* every stage of the generic chain matched nothing and a message was returned
C6_Witness ==
  /\ pc = "done"
  /\ result.kind = "returned"
  /\ ExecutionEmpty
  /\ \E i \in 1..Len(issued) : issued[i].name \in Templates /\ issued[i].outcome.n = 0
                                 /\ issued[i].outcome.kind = "rows"

(***************************************************************************)
(* C7                                                                      *)
(***************************************************************************)
\* the place of each store query in the chain of its handler
StageRank ==
  [n \in SimilarityStages \cup GenreStages \cup YearStages \cup GenericStages |->
     CASE n \in {"find_movie", "genre_top_rated", "genre_popular", "year_rated", "generated"} -> 1
       [] n \in {"find_movie_relaxed", "year_relaxed"} \cup Templates -> 2
       [] n = "similar_movies" -> 3
       [] n = "source_genres" -> 4
       [] OTHER -> 5]

\* the store queries of the handler h
ChainOf(h) ==
  CASE h = "similar" -> SimilarityStages
    [] h = "genre" -> GenreStages
    [] h = "year" -> YearStages
    [] h = "generic" -> GenericStages
    [] OTHER -> {}

\* the stages after which a chain has nothing left to try when they match no row
LastStages == {"find_movie_relaxed", "similar_by_genre", "year_relaxed"} \cup GenreStages \cup Templates

\* the "no results" messages of the handlers
NoResultsMessages == {"similar_not_found", "by_genre_none", "genre_none", "year_none", "fallback_none"}

\* the i-th store query is a last stage that matched no row
Exhausted(i) ==
  /\ issued[i].name \in LastStages
  /\ issued[i].outcome.kind = "rows"
  /\ issued[i].outcome.n = 0

\* C7: within one request the store queries are stages of the chain of the
\* dispatched handler, each executed at most once and in the fixed order of
\* the chain, never returning to an earlier stage; once a last stage yields
\* zero rows the handler has returned a "no results" message and no further
\* store query follows.
C7_StagesOnceInOrder ==
  /\ IssuedNames \subseteq ChainOf(handler)
  /\ \A i, j \in 1..Len(issued) :
       i < j => StageRank[issued[i].name] < StageRank[issued[j].name]
  /\ \A i \in 1..Len(issued) :
       Exhausted(i) => /\ i = Len(issued)
                       /\ HandlerOver
                       /\ response \in NoResultsMessages

\* the similarity chain ran through all five stages and matched nothing
C7_Witness ==
  /\ pc = "done"
  /\ handler = "similar"
  /\ Len(issued) = 5
  /\ Exhausted(5)
  /\ response = "by_genre_none"

FourDigitNumber(s) ==
  1000 * DigitValue[CharAt(s, 1)] + 100 * DigitValue[CharAt(s, 2)]
    + 10 * DigitValue[CharAt(s, 3)] + DigitValue[CharAt(s, 4)]

\* the year handler has computed its range
RangeParsed == handler = "year" /\ pc \notin {"route", "year_parse"}

\* C9: in the year handler a four-digit token Y yields the range [Y, Y] and a
\* decade token DDDDs the range [DDDD, DDDD+9], ten years from the decade
\* boundary ("1990s" gives [1990,1999], "2021" gives [2021,2021]); always
\* start_year <= end_year.
C9_YearRange ==
  RangeParsed =>
    /\ range.start_year <= range.end_year
    /\ Len(arg.year_str) = 4 =>
         range.start_year = FourDigitNumber(arg.year_str) /\ range.end_year = range.start_year
    /\ Len(arg.year_str) = 5 =>
         /\ CharAt(arg.year_str, 5) = "s"
         /\ range.start_year = FourDigitNumber(SubSeq(arg.year_str, 1, 4))
         /\ range.start_year % 10 = 0
         /\ range.end_year - range.start_year + 1 = 10
    /\ Len(arg.year_str) \in {4, 5}
    /\ arg.year_str = "1990s" => range = [start_year |-> 1990, end_year |-> 1999]
    /\ arg.year_str = "2021" => range = [start_year |-> 2021, end_year |-> 2021]

\* the decade token 1990s has been parsed and its range queried
C9_Witness ==
  /\ pc = "year_relaxed"
  /\ arg.year_str = "1990s"
  /\ range = [start_year |-> 1990, end_year |-> 1999]

(***************************************************************************)
(* C10                                                                     *)
(***************************************************************************)
\* the rating-filtered year query executed and returned zero rows
RatedEmpty ==
  \E i \in CallsOf("year_rated") : issued[i].outcome.kind = "rows" /\ issued[i].outcome.n = 0

\* C10: in the year handler the relaxed query is issued only after the
\* rating-filtered query executed and returned zero rows, and once the
\* handler has returned it was issued exactly in that case; it has the year
\* range of the rating-filtered query; when the rating-filtered query
\* returns rows the relaxed query is never issued, and when both return zero
\* rows the handler answers "couldn't find any movies".
C10_RelaxedIffRatedEmpty ==
  handler = "year" =>
    /\ CallsOf("year_relaxed") # {} => RatedEmpty
    /\ HandlerOver => (CallsOf("year_relaxed") # {} <=> RatedEmpty)
    /\ \A i \in CallsOf("year_rated") : \A j \in CallsOf("year_relaxed") :
         i < j /\ issued[j].range = issued[i].range /\ issued[i].range = range
    /\ \A j \in CallsOf("year_relaxed") :
         (issued[j].outcome.kind = "rows" /\ issued[j].outcome.n = 0) => response = "year_none"
    /\ response = "year_none" => \A i \in 1..Len(issued) : issued[i].outcome.n = 0

\* both year queries returned zero rows and the handler gave up
C10_Witness ==
  /\ pc = "format"
  /\ handler = "year"
  /\ Len(issued) = 2
  /\ RatedEmpty
  /\ response = "year_none"

(***************************************************************************)
(* C11                                                                     *)
(***************************************************************************)
\* the template the keyword buckets of the lower-cased query select
TemplateOfBuckets(low) ==
  LET movie  == \E w \in {"movie", "film", "watch", "cinema"} : Contains(w, low)
      rating == \E w \in {"rate", "rating", "score", "popular", "best", "top", "highest"} :
                  Contains(w, low)
      genre  == \E w \in {"genre", "category", "type", "comedy", "action", "drama", "horror"} :
                  Contains(w, low)
  IN  IF movie /\ rating THEN "template_popular"
      ELSE IF movie /\ genre THEN "template_popular_with_genres"
      ELSE "template_popular"

FallbackResponses ==
  {"fallback_popular_interested", "fallback_with_genres", "fallback_popular_database",
   "fallback_none", "fallback_trouble"}

\* C11: handle_empty_results issues exactly one template query, the one its
\* keyword buckets select (movie and rating terms: popular movies; otherwise
\* movie and genre terms: popular movies with genres; otherwise popular
\* movies), and no text of the user's query is part of the issued query.
C11_TemplateByBuckets ==
  LET low == Lower(query)
      templates == { i \in 1..Len(issued) : issued[i].name \in Templates }
  IN  /\ \A i \in templates :
           /\ issued[i].name = TemplateOfBuckets(low)
           /\ issued[i].param = ""
           /\ issued[i].range = NoRange
           /\ i = Len(issued)
      /\ Cardinality(templates) <= 1
      /\ response \in FallbackResponses => Cardinality(templates) = 1
      /\ templates # {} => response \in FallbackResponses

\* the popular-movies-with-genres template answered a query with a movie term
\* and a genre term and no rating term
C11_Witness ==
  /\ pc = "format"
  /\ response = "fallback_with_genres"
  /\ Len(issued) > 0
  /\ issued[Len(issued)].name = "template_popular_with_genres"
  /\ issued[Len(issued)].outcome.n > 0

(***************************************************************************)
(* The graph store behind the REST interface: movie nodes 1 to 3, two      *)
(* genre nodes and a user node, and some of the edges below.  A number is  *)
(* kept in tenths: a similarity of 0.8 is 8, a rating of 4.0 is 40.        *)
(***************************************************************************)
MaxEdges == 3

MovieKeys == {"m1", "m2", "m3"}
NodeKeys == MovieKeys \cup {"g1", "g2", "u1"}

NodeType == [m1 |-> "movie", m2 |-> "movie", m3 |-> "movie",
             g1 |-> "genre", g2 |-> "genre", u1 |-> "user"]
MovieNumber == [m1 |-> "1", m2 |-> "2", m3 |-> "3"]
Popularity == [m1 |-> 3, m2 |-> 1, m3 |-> 2, g1 |-> 0, g2 |-> 0, u1 |-> 0]
\* "" where the node has no such field
Title == [m1 |-> "Titanic", m2 |-> "Jurassic Park", m3 |-> "", g1 |-> "", g2 |-> "", u1 |-> ""]
Name == [m1 |-> "", m2 |-> "", m3 |-> "", g1 |-> "Drama", g2 |-> "", u1 |-> ""]

\* how the import keyed a movie node: under its canonical identifier with the
\* legacy identifier kept in original_id ("both"), under its canonical
\* identifier alone, or under its legacy identifier
StorageLayouts ==
  << [m1 |-> "both", m2 |-> "both", m3 |-> "both"],
     [m1 |-> "canonical", m2 |-> "legacy", m3 |-> "both"],
     [m1 |-> "legacy", m2 |-> "canonical", m3 |-> "both"] >>

\* _id of node n
Id(st, n) ==
  IF n \in MovieKeys
    THEN IF StorageLayouts[st.layout][n] = "legacy" THEN MovieNumber[n]
         ELSE "movie_" \o MovieNumber[n]
    ELSE [g1 |-> "genre_1", g2 |-> "genre_2", u1 |-> "user_1"][n]

\* node n has the field original_id
HasOriginalId(st, n) == n \in MovieKeys /\ StorageLayouts[st.layout][n] # "canonical"
OriginalId(st, n) == MovieNumber[n]

\* an edge; similarity and rating are -1 where the edge has no such field
Edge(k, f, t, ty, s, r) ==
  [key |-> k, from |-> f, to |-> t, type |-> ty, similarity |-> s, rating |-> r]

CandidateEdges ==
  { Edge("e1", "m1", "m2", "similar_to", 8, -1),
    Edge("e2", "m1", "m3", "similar_to", 8, -1),
    Edge("e3", "m2", "m1", "similar_to", 3, -1),
    Edge("e4", "m2", "m3", "similar_to", 3, -1),
    Edge("e5", "m1", "g1", "belongs_to", -1, -1),
    Edge("e6", "m1", "g2", "belongs_to", -1, -1),
    Edge("e7", "m2", "g1", "belongs_to", -1, -1),
    Edge("e8", "m3", "g1", "belongs_to", -1, -1),
    Edge("e9", "m3", "g2", "belongs_to", -1, -1),
    Edge("e10", "u1", "m1", "rated", -1, 40) }

Stores ==
  { [layout |-> l, edges |-> E] :
      l \in 1..Len(StorageLayouts),
      E \in { F \in SUBSET CandidateEdges : Cardinality(F) <= MaxEdges } }

(***************************************************************************)
(* Python's str.startswith and str.replace.                                *)
(***************************************************************************)
\* s.startswith(p)
StartsWith(s, p) == Len(s) >= Len(p) /\ SubSeq(s, 1, Len(p)) = p

RECURSIVE Replace(_, _)
\* s.replace(old, ""): every occurrence of old is removed, left to right
Replace(s, old) ==
  IF Len(s) < Len(old) THEN s
  ELSE IF SubSeq(s, 1, Len(old)) = old THEN Replace(SubSeq(s, Len(old) + 1, Len(s)), old)
  ELSE SubSeq(s, 1, 1) \o Replace(SubSeq(s, 2, Len(s)), old)

\* the same identifier whatever the form
normalize_identity(movie_id) == movie_id

\* if not movie_id.startswith("movie_"): movie_id = f"movie_{movie_id}"
normalize(movie_id) ==
  IF StartsWith(movie_id, "movie_") THEN movie_id ELSE "movie_" \o movie_id

\* FILTER movie._id == "{movie_id}" OR
\*        movie.original_id == "{movie_id.replace('movie_', '')}"
movie_query(st, movie_id) ==
  { n \in NodeKeys :
      \/ Id(st, n) = movie_id
      \/ HasOriginalId(st, n) /\ OriginalId(st, n) = Replace(movie_id, "movie_") }

(***************************************************************************)
(* The traversal FOR v, e, p IN 1..depth ANY central: every path of 1 to   *)
(* depth edges from the centre, an edge followed in either direction and   *)
(* at most once on a path.                                                 *)
(***************************************************************************)
OtherEnd(e, n) == IF e.from = n THEN e.to ELSE e.from

RECURSIVE Walks(_, _, _)
\* the paths of k edges from c: where they end, their edges, their last edge
Walks(st, c, k) ==
  IF k = 0 THEN { [v |-> c, used |-> {}, last |-> ""] }
  ELSE { [v |-> OtherEnd(q[2], q[1].v), used |-> q[1].used \cup {q[2].key}, last |-> q[2].key] :
           q \in { r \in Walks(st, c, k - 1) \X st.edges :
                     /\ r[2].key \notin r[1].used
                     /\ r[1].v \in {r[2].from, r[2].to} } }

\* RETURN DISTINCT {node: v, distance: LENGTH(p.edges)}
traversal_nodes(st, c, depth) ==
  UNION { { [node |-> w.v, distance |-> k] : w \in Walks(st, c, k) } : k \in 1..depth }

\* RETURN DISTINCT e
traversal_links(st, c, depth) ==
  { e \in st.edges : \E k \in 1..depth : \E w \in Walks(st, c, k) : w.last = e.key }

(***************************************************************************)
(* get_graph_data: the dictionaries of its nodes and links.                *)
(***************************************************************************)
\* 0 where the node has no year
Year == [m1 |-> 1997, m2 |-> 1993, m3 |-> 0, g1 |-> 0, g2 |-> 0, u1 |-> 0]

RECURSIVE SetToSeq(_)
\* the rows of an unsorted result, in the order the store returns them
SetToSeq(S) ==
  IF S = {} THEN <<>>
  ELSE LET x == CHOOSE y \in S : TRUE IN <<x>> \o SetToSeq(S \ {x})

\* node.get(field, node["_id"])
FieldOrId(st, n, field) == IF field[n] # "" THEN field[n] ELSE Id(st, n)

\* the first element of nodes: the central movie
central_node(st, c) ==
  [id |-> Id(st, c), label |-> FieldOrId(st, c, Title), type |-> NodeType[c],
   year |-> Year[c], group |-> "central"]

\* every traversed node put into the group of the centre
traversed_node_central(st, nd) ==
  [id |-> Id(st, nd.node),
   label |-> CASE NodeType[nd.node] = "movie" -> FieldOrId(st, nd.node, Title)
               [] NodeType[nd.node] \in {"genre", "tag"} -> FieldOrId(st, nd.node, Name)
               [] OTHER -> Id(st, nd.node),
   type |-> NodeType[nd.node],
   year |-> IF NodeType[nd.node] = "movie" THEN Year[nd.node] ELSE 0,
   group |-> "central",
   distance |-> nd.distance]

\* the dictionary appended for a traversed node
traversed_node(st, nd) ==
  [id |-> Id(st, nd.node),
   label |-> CASE NodeType[nd.node] = "movie" -> FieldOrId(st, nd.node, Title)
               [] NodeType[nd.node] \in {"genre", "tag"} -> FieldOrId(st, nd.node, Name)
               [] OTHER -> Id(st, nd.node),
   type |-> NodeType[nd.node],
   year |-> IF NodeType[nd.node] = "movie" THEN Year[nd.node] ELSE 0,
   group |-> NodeType[nd.node],
   distance |-> nd.distance]

\* the rating taken for the weight as it is
link_weight_unscaled(link) ==
  IF link.type = "similar_to" THEN IF link.similarity # -1 THEN link.similarity ELSE 5
  ELSE IF link.type = "rated" THEN IF link.rating # -1 THEN link.rating ELSE 30
  ELSE 10

\* the weight of a link, in tenths
link_weight(link) ==
  IF link.type = "similar_to" THEN IF link.similarity # -1 THEN link.similarity ELSE 5
  ELSE IF link.type = "rated" THEN (IF link.rating # -1 THEN link.rating ELSE 30) \div 5
  ELSE 10

\* the dictionary appended for a link
format_link(st, link) ==
  [source |-> Id(st, link.from), target |-> Id(st, link.to),
   type |-> link.type, weight |-> link_weight(link)]

\* what get_graph_data returns when the central movie is found
graph_data(st, c, depth) ==
  [nodes |-> <<central_node(st, c)>> \o
             SetToSeq({ traversed_node(st, nd) : nd \in traversal_nodes(st, c, depth) }),
   links |-> SetToSeq({ format_link(st, e) : e \in traversal_links(st, c, depth) })]

EmptyGraph == [nodes |-> <<>>, links |-> <<>>]

(***************************************************************************)
(* GET /graph/{movie_id}                                                   *)
(***************************************************************************)
\* a response of the REST interface
Http(status, body) == [status |-> status, body |-> body]

\* a depth of up to 4 let through
depth_in_range_four(depth) == depth >= 1 /\ depth <= 4

\* depth: int = Query(2, ge=1, le=3)
depth_in_range(depth) == depth >= 1 /\ depth <= 3

\* get_movie_graph: the request is validated; one outside the range is
\* answered with a validation error and get_graph_data is not called
GetMovieGraph(movie_id, depth) ==
  /\ step = "idle"
  /\ call' = [route |-> "graph", movie_id |-> movie_id, depth |-> depth]
  /\ IF depth_in_range(depth)
       THEN step' = "graph_lookup" /\ reply' = reply
       ELSE step' = "done" /\ reply' = Http(422, "validation error")
  /\ UNCHANGED <<store, asked, central, chatVars>>

\* a query of the REST interface, appended to the log of its queries
Ask(name, args) == Append(asked, [name |-> name, args |-> args])

\* get_graph_data: the central movie is looked up; none is an empty graph
GraphLookup ==
  /\ step = "graph_lookup"
  /\ LET movie_id == normalize(call.movie_id)
         rows == movie_query(store, movie_id)
     IN  /\ asked' = Ask("movie_query", [id |-> movie_id, original_id |-> Replace(movie_id, "movie_")])
         /\ IF rows = {}
              THEN step' = "done" /\ reply' = Http(200, EmptyGraph) /\ central' = central
              ELSE /\ \E n \in rows : central' = n
                   /\ step' = "graph_traverse"
                   /\ reply' = reply
  /\ UNCHANGED <<store, call, chatVars>>

\* get_graph_data: the traversal around the central movie, and its shaping
GraphTraverse ==
  /\ step = "graph_traverse"
  /\ asked' = Ask("subgraph_query", [id |-> Id(store, central), depth |-> call.depth])
  /\ reply' = Http(200, graph_data(store, central, call.depth))
  /\ step' = "done"
  /\ UNCHANGED <<store, call, central, chatVars>>

(***************************************************************************)
(* find_similar_movies and get_recommendations_by_genre.  A score is a     *)
(* fraction num/den.                                                       *)
(***************************************************************************)
\* a >= b, for fractions
AtLeast(a, b) == a.num * b.den >= b.num * a.den

\* the orders of the rows of S
Perms(S) ==
  { f \in [1..Cardinality(S) -> S] : \A i, j \in 1..Cardinality(S) : f[i] = f[j] => i = j }

\* LIMIT limit
Take(rows, limit) ==
  IF limit >= Len(rows) THEN rows ELSE SubSeq(rows, 1, limit)

\* FOR v, e IN 1..1 OUTBOUND movie
\* FILTER e.type == 'similar_to' AND e.similarity >= threshold
similar_rows(st, c, threshold) ==
  { [movie |-> e.to, similarity |-> [num |-> e.similarity, den |-> 10]] :
      e \in { d \in st.edges :
                d.from = c /\ d.type = "similar_to" /\ d.similarity >= threshold } }

\* SORT e.similarity DESC: rows of equal similarity come in any order
similar_sorted(st, c, threshold) ==
  { f \in Perms(similar_rows(st, c, threshold)) :
      \A i, j \in DOMAIN f : i < j => AtLeast(f[i].similarity, f[j].similarity) }

\* movie.get("original_id"); "" is None
original_id_of(st, n) == IF HasOriginalId(st, n) THEN OriginalId(st, n) ELSE ""

\* movie.get("title", "Unknown")
title_of(n) == IF Title[n] # "" THEN Title[n] ELSE "Unknown"

\* an entry of the list of directly similar movies
direct_entry(st, row) ==
  [id |-> Id(st, row.movie), original_id |-> original_id_of(st, row.movie),
   title |-> title_of(row.movie), year |-> Year[row.movie],
   similarity |-> row.similarity, reason |-> "Direct similarity"]

\* the list of direct entries returned even when it is empty
direct_found_always(similar) == TRUE

\* if similar_result and similar_result[0].get("similar_movies")
direct_found(similar) == similar # <<>>

\* FOR v, e IN 1..1 OUTBOUND movie
\* FILTER e.type == 'belongs_to' AND v.type == 'genre' RETURN v._id
genres_of(st, n) ==
  { e.to : e \in { d \in st.edges :
                     d.from = n /\ d.type = "belongs_to" /\ NodeType[d.to] = "genre" } }

\* LENGTH(UNION(movie_genres, source_genres)): UNION appends its arrays and
\* removes no duplicate
union_length(movie_genres, source_genres) ==
  Cardinality(movie_genres) + Cardinality(source_genres)

\* the rows of the genre query before SORT and LIMIT
genre_rows(st, c, source_genres) ==
  { [movie |-> n,
     similarity |-> [num |-> Cardinality(genres_of(st, n) \cap source_genres),
                     den |-> union_length(genres_of(st, n), source_genres)],
     common_genre_count |-> Cardinality(genres_of(st, n) \cap source_genres)] :
      n \in { m \in NodeKeys :
                /\ NodeType[m] = "movie"
                /\ Id(st, m) # Id(st, c)
                /\ Cardinality(genres_of(st, m) \cap source_genres) > 0
                /\ AtLeast([num |-> Cardinality(genres_of(st, m) \cap source_genres),
                            den |-> union_length(genres_of(st, m), source_genres)],
                           [num |-> 3, den |-> 10]) } }

\* SORT similarity DESC, movie.popularity DESC
genre_sorted(st, c, source_genres) ==
  { f \in Perms(genre_rows(st, c, source_genres)) :
      \A i, j \in DOMAIN f : i < j =>
        /\ AtLeast(f[i].similarity, f[j].similarity)
        /\ AtLeast(f[j].similarity, f[i].similarity) =>
             Popularity[f[i].movie] >= Popularity[f[j].movie] }

\* an entry of the list of movies that share genres
genre_entry(st, row) ==
  [id |-> Id(st, row.movie), original_id |-> original_id_of(st, row.movie),
   title |-> title_of(row.movie), year |-> Year[row.movie],
   similarity |-> row.similarity, common_genre_count |-> row.common_genre_count,
   reason |-> "Shares " \o ToString(row.common_genre_count) \o " genres"]

\* [f(row) for row in rows]
Entries(st, rows, direct) ==
  [i \in 1..Len(rows) |-> IF direct THEN direct_entry(st, rows[i]) ELSE genre_entry(st, rows[i])]

(***************************************************************************)
(* GET /recommendations                                                    *)
(***************************************************************************)
\* limit: int = Query(10, ge=1, le=50)
limit_in_range(limit) == limit >= 1 /\ limit <= 50
\* threshold: float = Query(0.3, ge=0.1, le=1.0), in tenths
threshold_in_range(threshold) == threshold >= 1 /\ threshold <= 10

\* get_recommendations: the request is validated, find_similar_movies called
GetRecommendations(movieId, limit, threshold) ==
  /\ step = "idle"
  /\ call' = [route |-> "recommendations", movie_id |-> movieId,
              limit |-> limit, threshold |-> threshold]
  /\ IF limit_in_range(limit) /\ threshold_in_range(threshold)
       THEN step' = "similar_lookup" /\ reply' = reply
       ELSE step' = "done" /\ reply' = Http(422, "validation error")
  /\ UNCHANGED <<store, asked, central, chatVars>>

\* find_similar_movies: the source movie is looked up; none is an empty list
SimilarLookup ==
  /\ step = "similar_lookup"
  /\ LET movie_id == normalize(call.movie_id)
         rows == movie_query(store, movie_id)
     IN  /\ asked' = Ask("movie_query", [id |-> movie_id, original_id |-> Replace(movie_id, "movie_")])
         /\ IF rows = {}
              THEN step' = "done" /\ reply' = Http(200, [recommendations |-> <<>>]) /\ central' = central
              ELSE /\ \E n \in rows : central' = n
                   /\ step' = "similar_query"
                   /\ reply' = reply
  /\ UNCHANGED <<store, call, chatVars>>

\* find_similar_movies: the similar_to edges of the source movie; their list
\* is returned, or the genres are tried
SimilarDirect ==
  /\ step = "similar_query"
  /\ asked' = Ask("similar_query", [id |-> Id(store, central), threshold |-> call.threshold,
                                    limit |-> call.limit])
  /\ \E rows \in similar_sorted(store, central, call.threshold) :
       LET similar == Take(rows, call.limit)
       IN  IF direct_found(similar)
             THEN /\ step' = "done"
                  /\ reply' = Http(200, [recommendations |-> Entries(store, similar, TRUE)])
             ELSE step' = "genre_query" /\ reply' = reply
  /\ UNCHANGED <<store, call, central, chatVars>>

\* get_recommendations_by_genre: the genres of the source movie; none is an
\* empty list
GenreSource ==
  /\ step = "genre_query"
  /\ asked' = Ask("genre_query", [id |-> Id(store, central)])
  /\ IF genres_of(store, central) = {}
       THEN step' = "done" /\ reply' = Http(200, [recommendations |-> <<>>])
       ELSE step' = "genre_similar_query" /\ reply' = reply
  /\ UNCHANGED <<store, call, central, chatVars>>

\* get_recommendations_by_genre: the movies that share genres with the source
GenreSimilar ==
  /\ step = "genre_similar_query"
  /\ asked' = Ask("genre_similar_query", [id |-> Id(store, central), limit |-> call.limit])
  /\ \E rows \in genre_sorted(store, central, genres_of(store, central)) :
       reply' = Http(200, [recommendations |-> Entries(store, Take(rows, call.limit), FALSE)])
  /\ step' = "done"
  /\ UNCHANGED <<store, call, central, chatVars>>

(***************************************************************************)
(* get_personalized_recommendations; no route calls it.  A year of 0 is a  *)
(* missing one: a preference not given, a movie without the field.         *)
(***************************************************************************)
\* user_preferences
Preferences(liked_movies, liked_genres, min_year, max_year) ==
  [liked_movies |-> liked_movies, liked_genres |-> liked_genres,
   min_year |-> min_year, max_year |-> max_year]

\* movie_ids = [f"movie_{m}" if not m.startswith("movie_") else m ...] and
\* FILTER movie._id NOT IN liked_movies
excluded(st, n, preferences) ==
  Id(st, n) \in { normalize(m) : m \in preferences.liked_movies }

\* filter_clause: HAS(movie, 'year') AND movie.year >= min_year, and the
\* same for max_year, each for a preference that is given
year_filter(n, preferences) ==
  /\ preferences.min_year # 0 => Year[n] # 0 /\ Year[n] >= preferences.min_year
  /\ preferences.max_year # 0 => Year[n] # 0 /\ Year[n] <= preferences.max_year

\* genre_match: LENGTH(FOR genre IN movie_genres
\*                     FILTER LOWER(genre) IN liked_genres RETURN genre)
genre_match(st, n, preferences) ==
  Cardinality({ g \in genres_of(st, n) : Lower(Name[g]) \in preferences.liked_genres })

\* similar_to_liked: the similar_to edges to the movie from a node whose
\* _id is one of the liked identifiers
similar_to_liked(st, n, preferences) ==
  { e \in st.edges :
      /\ e.type = "similar_to"
      /\ e.to = n
      /\ Id(st, e.from) \in { normalize(m) : m \in preferences.liked_movies } }

RECURSIVE SumOfSimilarity(_)
\* the sum AVG divides
SumOfSimilarity(edges) ==
  IF edges = {} THEN 0
  ELSE LET e == CHOOSE d \in edges : TRUE IN e.similarity + SumOfSimilarity(edges \ {e})

\* the score the query of the given preferences filters and sorts by:
\* combined_score = genre_match * 0.5 + similarity_score * 5, the
\* similarity_score AVG(similar_to_liked) or 0, genre_match, or 1 for the
\* query without preferences, which has no score and filters on none
personalized_score(st, n, preferences) ==
  LET liked == similar_to_liked(st, n, preferences)
      count == Cardinality(liked)
      gm == genre_match(st, n, preferences)
  IN  IF preferences.liked_movies # {} /\ preferences.liked_genres # {}
        THEN IF count = 0 THEN [num |-> gm, den |-> 2]
             ELSE [num |-> gm * count + SumOfSimilarity(liked), den |-> 2 * count]
      ELSE IF preferences.liked_movies # {}
        THEN IF count = 0 THEN [num |-> 0, den |-> 1]
             ELSE [num |-> SumOfSimilarity(liked), den |-> 10 * count]
      ELSE IF preferences.liked_genres # {} THEN [num |-> gm, den |-> 1]
      ELSE [num |-> 1, den |-> 1]

\* the rows of the query, in the order of SORT score DESC, movie.popularity
\* DESC (SORT movie.popularity DESC without preferences)
personalized_sorted(st, preferences) ==
  LET rows == { n \in MovieKeys :
                  /\ NodeType[n] = "movie"
                  /\ preferences.liked_movies # {} => ~excluded(st, n, preferences)
                  /\ year_filter(n, preferences)
                  /\ personalized_score(st, n, preferences).num > 0 }
  IN  { f \in Perms(rows) :
          \A i, j \in DOMAIN f : i < j =>
            /\ AtLeast(personalized_score(st, f[i], preferences),
                       personalized_score(st, f[j], preferences))
            /\ AtLeast(personalized_score(st, f[j], preferences),
                       personalized_score(st, f[i], preferences)) =>
                 Popularity[f[i]] >= Popularity[f[j]] }

\* the dictionary appended for a row, its reason by the keys of the row
personalized_entry(st, n, preferences) ==
  [id |-> Id(st, n), original_id |-> original_id_of(st, n),
   title |-> title_of(n), year |-> Year[n],
   genres |-> SetToSeq({ Name[g] : g \in genres_of(st, n) }),
   reason |->
     IF preferences.liked_movies # {} /\ preferences.liked_genres # {}
       THEN "Matches " \o ToString(genre_match(st, n, preferences))
              \o " of your preferred genres and is similar to movies you like"
     ELSE IF preferences.liked_movies # {} THEN "Similar to movies you like"
     ELSE IF preferences.liked_genres # {}
       THEN "Matches " \o ToString(genre_match(st, n, preferences)) \o " of your preferred genres"
     ELSE "Popular movie that matches your filters"]

\* get_personalized_recommendations: its one query and the list made of its
\* rows; status 200 is the return of the function
GetPersonalizedRecommendations(preferences, limit) ==
  /\ step = "idle"
  /\ call' = [route |-> "personalized", preferences |-> preferences, limit |-> limit]
  /\ asked' = Ask("personalized_query", [limit |-> limit])
  /\ \E rows \in personalized_sorted(store, preferences) :
       reply' = Http(200, [recommendations |->
                             [i \in 1..Len(Take(rows, limit)) |->
                                personalized_entry(store, rows[i], preferences)]])
  /\ step' = "done"
  /\ UNCHANGED <<store, central, chatVars>>

(***************************************************************************)
(* find_shortest_path.                                                     *)
(***************************************************************************)
RECURSIVE Within(_, _, _)
\* the nodes at most k edges away from n, every edge followed from _from to _to
Within(st, n, k) ==
  IF k = 0 THEN {n}
  ELSE LET W == Within(st, n, k - 1)
       IN  W \cup { e.to : e \in { d \in st.edges : d.from \in W } }

\* the number of vertices on a shortest path from n to m, 0 if there is none
path_vertices(st, n, m) ==
  LET ks == { k \in 0..Cardinality(NodeKeys) : m \in Within(st, n, k) }
  IN  IF ks = {} THEN 0 ELSE 1 + CHOOSE k \in ks : \A l \in ks : k <= l

\* the rows of path_query: FOR path IN OUTBOUND SHORTEST_PATH binds path to
\* each vertex of the shortest path in turn, so that there is a row for every
\* vertex on it and path.vertices and path.edges are null in every row
path_rows(st, source_id, target_id) ==
  UNION { { [source |-> q[1], target |-> q[2], vertex |-> k, vertices |-> "null", edges |-> "null"] :
              k \in 1..path_vertices(st, q[1], q[2]) } :
            q \in movie_query(st, source_id) \X movie_query(st, target_id) }

\* a path reported although path_query has no row
no_path_exists(source_id, target_id) ==
  [source |-> source_id, target |-> target_id, path_exists |-> TRUE, path |-> <<>>]

\* what find_shortest_path returns when path_query has no row
no_path(source_id, target_id) ==
  [source |-> source_id, target |-> target_id, path_exists |-> FALSE, path |-> <<>>]

(***************************************************************************)
(* POST /analytics                                                         *)
(***************************************************************************)
\* request.context: None, or a dictionary; "" where it has no such key, and
\* -1 where it has no limit
Context(none, source, target) ==
  [none |-> none, source |-> source, target |-> target, limit |-> -1, algorithm |-> ""]

\* the analysis the text of the request selects
analytics_type(q) ==
  LET low == Lower(q)
  IN  IF Contains("pagerank", low) THEN "pagerank"
      ELSE IF Contains("communit", low) THEN "communities"
      ELSE IF Contains("path", low) \/ Contains("route", low) THEN "path"
      ELSE IF Contains("central", low) THEN "centrality"
      ELSE "general"

\* except Exception as e: raise HTTPException(status_code=500, ...); the
\* HTTPException of the path branch is an Exception and is caught too
run_analytics_except(e) == Http(500, "Error running analytics: " \o e)

(***************************************************************************)
(* The analyses run on an in-memory copy of the graph: calculate_pagerank, *)
(* calculate_centrality and detect_communities.  A score of the library is *)
(* a fraction; what the library computes is any of its possible results.   *)
(***************************************************************************)
\* request.context.get("limit", 10); -1 where the context has no such key
context_limit(context) == IF context.limit = -1 THEN 10 ELSE context.limit

\* request.context.get("algorithm", "louvain")
context_algorithm(context) == IF context.algorithm = "" THEN "louvain" ELSE context.algorithm

\* the nodes of G_nx: add_node for every movie of the store, add_edge for
\* every edge of the given types, which adds the ends it does not hold yet
nx_nodes(st, types) ==
  MovieKeys \cup UNION { {e.from, e.to} : e \in { f \in st.edges : f.type \in types } }

\* a node of any kind is listed
is_movie_node_any(n) == TRUE

\* node_data and node_data.get("type") == "movie": only add_node gave a node
\* its fields, the ends added by add_edge have none
is_movie_node(n) == n \in MovieKeys /\ NodeType[n] = "movie"

\* "title": node_data.get("title", movie_id), "year": node_data.get("year")
movie_info(st, n) ==
  [id |-> Id(st, n),
   title |-> IF n \in MovieKeys THEN FieldOrId(st, n, Title) ELSE Id(st, n),
   year |-> IF n \in MovieKeys THEN Year[n] ELSE 0]

\* list.sort(key=..., reverse=True), key[i] the key of entries[i]:
\* descending, entries of equal key keep their order
sort_reverse(entries, key) ==
  LET n == Len(entries)
      before(j, i) == \/ ~AtLeast(key[i], key[j])
                      \/ AtLeast(key[j], key[i]) /\ j < i
      place(i) == 1 + Cardinality({ j \in 1..n : j # i /\ before(j, i) })
  IN  [r \in 1..n |-> entries[CHOOSE i \in 1..n : place(i) = r]]

\* the results a measure of the library can have on the nodes
LibraryScores(nodes) == [nodes -> { [num |-> 0, den |-> 1], [num |-> 1, den |-> 2] }]

\* calculate_pagerank, pagerank being what nx.pagerank returned
calculate_pagerank(st, limit, pagerank) ==
  LET listed == SelectSeq(SetToSeq(DOMAIN pagerank), is_movie_node)
      movie_pageranks == [i \in 1..Len(listed) |->
                            [id |-> movie_info(st, listed[i]).id,
                             title |-> movie_info(st, listed[i]).title,
                             year |-> movie_info(st, listed[i]).year,
                             pagerank |-> pagerank[listed[i]]]]
  IN  Take(sort_reverse(movie_pageranks, [i \in 1..Len(listed) |-> movie_pageranks[i].pagerank]), limit)

\* nx.degree_centrality of the undirected graph: the number of neighbours
\* over the number of other nodes
degree_centrality(st, types, n) ==
  [num |-> Cardinality({ OtherEnd(e, n) : e \in { f \in st.edges : f.type \in types /\ n \in {f.from, f.to} } }),
   den |-> Cardinality(nx_nodes(st, types)) - 1]

\* one list of calculate_centrality: centrality.get(movie_id, 0) of every
\* listed node, sorted and cut
centrality_list(st, limit, nodes, centrality) ==
  LET listed == SelectSeq(SetToSeq(nodes), is_movie_node)
      rows == [i \in 1..Len(listed) |->
                 [id |-> movie_info(st, listed[i]).id,
                  title |-> movie_info(st, listed[i]).title,
                  year |-> movie_info(st, listed[i]).year,
                  centrality |-> IF listed[i] \in DOMAIN centrality THEN centrality[listed[i]]
                                 ELSE [num |-> 0, den |-> 1]]]
  IN  Take(sort_reverse(rows, [i \in 1..Len(listed) |-> rows[i].centrality]), limit)

\* calculate_centrality, betweenness and closeness being what the library
\* returned for the nodes the lists read
calculate_centrality(st, limit, betweenness, closeness) ==
  LET types == {"similar_to", "belongs_to", "has_tag"}
      nodes == nx_nodes(st, types)
  IN  [degree |-> centrality_list(st, limit, nodes,
                                  [n \in nodes |-> degree_centrality(st, types, n)]),
       betweenness |-> centrality_list(st, limit, nodes, betweenness),
       closeness |-> centrality_list(st, limit, nodes, closeness)]

\* the partitions an algorithm can return: every node in one of the
\* communities 0, 1, ..., none of them empty
Partitions(nodes) ==
  UNION { { f \in [nodes -> 0..(k - 1)] : \A c \in 0..(k - 1) : \E n \in nodes : f[n] = c } :
            k \in 1..Cardinality(nodes) }

\* the grouping of detect_communities: the movies of community c
community_members(st, partition, c) ==
  LET listed == SelectSeq(SetToSeq({ n \in DOMAIN partition : partition[n] = c }), is_movie_node)
  IN  [i \in 1..Len(listed) |-> movie_info(st, listed[i])]

\* the communities labelled in the order of their numbers
detect_communities_unsorted(st, partition) ==
  LET ids == { partition[n] : n \in DOMAIN partition }
      communities == [i \in 1..Cardinality(ids) |-> community_members(st, partition, i - 1)]
  IN  [i \in 1..Len(communities) |->
         [label |-> "community_" \o ToString(i - 1), members |-> communities[i]]]

\* detect_communities, partition being what the algorithm returned: the
\* groups sorted by len(members), reverse=True, and labelled community_{i}
detect_communities(st, partition) ==
  LET ids == { partition[n] : n \in DOMAIN partition }
      communities == [i \in 1..Cardinality(ids) |-> community_members(st, partition, i - 1)]
      sorted_communities == sort_reverse(communities, [i \in 1..Cardinality(ids) |->
                                                         [num |-> Len(communities[i]), den |-> 1]])
  IN  [i \in 1..Len(sorted_communities) |->
         [label |-> "community_" \o ToString(i - 1), members |-> sorted_communities[i]]]

\* run_analytics up to the query of a path; an analysis of the graph runs
\* within the step, on what the library computes, and asked keeps the call
\* of its function
RunAnalytics(q, context) ==
  /\ step = "idle"
  /\ call' = [route |-> "analytics", query |-> q, context |-> context]
  /\ LET type == analytics_type(q)
     IN  IF type = "general"
           THEN step' = "done" /\ reply' = Http(200, [type |-> "general", result |-> "query_movie_graph"])
         ELSE IF context.none
           THEN step' = "done" /\ reply' = run_analytics_except("AttributeError")
         ELSE IF type = "path"
           THEN IF context.source = "" \/ context.target = ""
                  THEN step' = "done" /\ reply' = run_analytics_except("400")
                  ELSE step' = "path_query" /\ reply' = reply
         ELSE IF type = "pagerank"
           THEN /\ step' = "done"
                /\ \E pagerank \in LibraryScores(nx_nodes(store, {"similar_to", "belongs_to", "has_tag"})) :
                     reply' = Http(200, [type |-> type,
                                         result |-> calculate_pagerank(store, context_limit(context), pagerank)])
         ELSE IF type = "communities"
           THEN /\ step' = "done"
                /\ \E partition \in Partitions(nx_nodes(store, {"similar_to"})) :
                     reply' = Http(200, [type |-> type, result |-> detect_communities(store, partition)])
         ELSE /\ step' = "done"
              /\ \E betweenness, closeness \in LibraryScores(MovieKeys) :
                   reply' = Http(200, [type |-> type,
                                       result |-> calculate_centrality(store, context_limit(context),
                                                                       betweenness, closeness)])
  /\ asked' = IF context.none THEN asked
              ELSE CASE analytics_type(q) = "pagerank" ->
                          Ask("calculate_pagerank", [limit |-> context_limit(context)])
                     [] analytics_type(q) = "communities" ->
                          Ask("detect_communities", [algorithm |-> context_algorithm(context)])
                     [] analytics_type(q) = "centrality" ->
                          Ask("calculate_centrality", [limit |-> context_limit(context)])
                     [] OTHER -> asked
  /\ UNCHANGED <<store, central, chatVars>>

\* find_shortest_path: its one query, and the shaping of the first row
PathQuery ==
  /\ step = "path_query"
  /\ LET source_id == normalize(call.context.source)
         target_id == normalize(call.context.target)
         rows == path_rows(store, source_id, target_id)
     IN  /\ asked' = Ask("path_query",
                         [id |-> source_id, original_id |-> Replace(source_id, "movie_"),
                          target_id |-> target_id,
                          target_original_id |-> Replace(target_id, "movie_")])
         /\ IF rows = {}
              THEN /\ reply' = Http(200, [type |-> "path", result |-> no_path(source_id, target_id)])
                   /\ central' = central
              ELSE \* len(path_data["vertices"]) of None
                   /\ reply' = run_analytics_except("TypeError")
                   /\ \E r \in rows : central' = r.source
  /\ step' = "done"
  /\ UNCHANGED <<store, call, chatVars>>

(***************************************************************************)
(* Requests of the REST interface against a store.                         *)
(***************************************************************************)
ApiInit == ChatIdle /\ ApiIdle /\ store \in Stores

\* a depth from 0 to 4 and a movie in either form of its identifier
GraphRequest ==
  \E movie_id \in {"1", "movie_1", "2", "movie_2", "9", "movie_9"} : \E depth \in 0..4 :
    GetMovieGraph(movie_id, depth)

\* a limit from 0 to 2 and a threshold of 0, 0.3 or 0.9
RecommendationRequest ==
  \E movieId \in {"1", "movie_1", "2", "9"} : \E limit \in 0..2 : \E threshold \in {0, 3, 9} :
    GetRecommendations(movieId, limit, threshold)

\* a text for every analysis, with no context, an empty one, one that names
\* a source, a target or both, or one that names a limit or an algorithm; an
\* analysis of the whole graph is asked without a source or a target
AnalyticsRequest ==
  \E q \in {"pagerank", "find communities", "Shortest Path", "route", "central", "hello"} :
  \E context \in { Context(TRUE, "", ""), Context(FALSE, "", ""), Context(FALSE, "1", ""),
                   Context(FALSE, "", "2"), Context(FALSE, "1", "2"),
                   Context(FALSE, "movie_1", "3"), Context(FALSE, "9", "1"),
                   Context(FALSE, "movie_2", "movie_9"),
                   [Context(FALSE, "", "") EXCEPT !.limit = 2],
                   [Context(FALSE, "", "") EXCEPT !.algorithm = "label_propagation"] } :
    /\ step = "idle"
    /\ analytics_type(q) \in {"pagerank", "communities", "centrality"} =>
         context.source = "" /\ context.target = ""
    /\ RunAnalytics(q, context)

\* preferences with liked movies in either form of the identifier, a liked
\* genre, a first and a last year, each given or not
PersonalizedRequest ==
  \E liked_movies \in {{}, {"1"}, {"movie_1"}, {"1", "2"}} : \E liked_genres \in {{}, {"drama"}} :
  \E min_year \in {0, 1995} : \E max_year \in {0, 1995} : \E limit \in {1, 10} :
    GetPersonalizedRecommendations(Preferences(liked_movies, liked_genres, min_year, max_year), limit)

ApiNext ==
  \/ GraphRequest
  \/ GraphLookup
  \/ GraphTraverse
  \/ RecommendationRequest
  \/ SimilarLookup
  \/ SimilarDirect
  \/ GenreSource
  \/ GenreSimilar
  \/ AnalyticsRequest
  \/ PathQuery
  \/ PersonalizedRequest

ApiSpec == ApiInit /\ [][ApiNext]_vars

(***************************************************************************)
(* Vocabulary of the properties of the REST interface.                     *)
(***************************************************************************)
\* the request of route r was answered with the result of its function
Served(r) == step = "done" /\ call.route = r /\ reply.status = 200

\* the queries of name q the request issued
AskedOf(q) == { i \in 1..Len(asked) : asked[i].name = q }

NumberOf(id) == IF StartsWith(id, "movie_") THEN SubSeq(id, 7, Len(id)) ELSE id

\* the store has the movie the identifier names
InStore(id) == \E n \in MovieKeys : MovieNumber[n] = NumberOf(id)

\* C13: a movie that is not in the store is answered with a value and no
\* exception: get_graph_data returns the empty graph without issuing the
\* traversal, find_similar_movies returns the empty list without issuing the
\* similarity or the genre queries, and find_shortest_path returns
\* path_exists false with an empty path.
C13_NotFoundIsValue ==
  /\ call.route = "graph" /\ ~InStore(call.movie_id) =>
       /\ AskedOf("subgraph_query") = {}
       /\ step = "done" /\ depth_in_range(call.depth) =>
            /\ reply = Http(200, EmptyGraph)
            /\ Cardinality(AskedOf("movie_query")) = 1
  /\ call.route = "recommendations" /\ ~InStore(call.movie_id) =>
       /\ AskedOf("similar_query") \cup AskedOf("genre_query")
            \cup AskedOf("genre_similar_query") = {}
       /\ step = "done" /\ AskedOf("movie_query") # {} =>
            reply = Http(200, [recommendations |-> <<>>])
  /\ /\ call.route = "analytics"
     /\ step = "done"
     /\ AskedOf("path_query") # {}
     /\ ~InStore(call.context.source) \/ ~InStore(call.context.target)
     => /\ reply.status = 200
        /\ reply.body.type = "path"
        /\ reply.body.result.path_exists = FALSE
        /\ reply.body.result.path = <<>>
        /\ Len(asked) = 1

\* a path was asked for from a movie of the store that has edges to a movie
\* that is not in the store
C13_Witness ==
  /\ call.route = "analytics"
  /\ step = "done"
  /\ AskedOf("path_query") # {}
  /\ InStore(call.context.source)
  /\ ~InStore(call.context.target)
  /\ \E e \in store.edges : Id(store, e.from) = normalize(call.context.source)
  /\ reply.body.result.path_exists = FALSE

(***************************************************************************)
(* C14                                                                     *)
(***************************************************************************)
\* the edge of the store a link of the view stands for
EdgeOf(link) ==
  CHOOSE e \in store.edges :
    /\ Id(store, e.from) = link.source
    /\ Id(store, e.to) = link.target
    /\ e.type = link.type

\* C14: the weight of every link of a graph view is the similarity of its
\* edge for a similar_to edge, a fifth of its rating for a rated edge and 1.0
\* for any other edge (in tenths: the similarity, twice the rating in units,
\* 10), so that it lies between 0 and 1; a genre node that is not the centre
\* has the group "genre".
C14_LinkWeights ==
  Served("graph") =>
    /\ \A i \in 1..Len(reply.body.links) :
         LET link == reply.body.links[i]
             e == EdgeOf(link)
         IN  /\ link.type = e.type
             /\ e.type = "similar_to" /\ e.similarity # -1 => link.weight = e.similarity
             /\ e.type = "rated" /\ e.rating # -1 => 5 * link.weight = e.rating
             /\ e.type \notin {"similar_to", "rated"} => link.weight = 10
             /\ link.weight >= 0
             /\ link.weight <= 10
    /\ \A i \in 2..Len(reply.body.nodes) :
         reply.body.nodes[i].type = "genre" => reply.body.nodes[i].group = "genre"

\* a view with a similar_to link, a rated link and a genre node
C14_Witness ==
  /\ Served("graph")
  /\ \E i, j \in 1..Len(reply.body.links) :
       /\ reply.body.links[i].type = "similar_to" /\ reply.body.links[i].weight = 8
       /\ reply.body.links[j].type = "rated" /\ reply.body.links[j].weight = 8
  /\ \E i \in 2..Len(reply.body.nodes) : reply.body.nodes[i].group = "genre"

(***************************************************************************)
(* C15                                                                     *)
(***************************************************************************)
\* the depth d brought into the range from 1 to 3
Clamped(d) == IF d < 1 THEN 1 ELSE IF d > 3 THEN 3 ELSE d

\* no node of a graph view is more than three hops from the centre
WithinThreeHops ==
  Served("graph") =>
    \A i \in 2..Len(reply.body.nodes) : reply.body.nodes[i].distance <= 3

\* C15 as stated: every traversal runs with a depth from 1 to 3, a request
\* with a depth outside that range is served with the depth clamped into it,
\* and no node is more than 3 hops away.
C15_DepthClamped ==
  /\ \A i \in AskedOf("subgraph_query") : asked[i].args.depth \in 1..3
  /\ call.route = "graph" /\ step = "done" =>
       /\ reply.status = 200
       /\ InStore(call.movie_id) =>
            \E i \in AskedOf("subgraph_query") : asked[i].args.depth = Clamped(call.depth)
  /\ WithinThreeHops

\* C15, amended: every traversal runs with the depth of its request, which is
\* from 1 to 3; a request with a depth outside that range is refused with a
\* validation error before get_graph_data is called, and issues no query; no
\* node is more than 3 hops away.
C15_DepthValidated ==
  /\ \A i \in AskedOf("subgraph_query") :
       asked[i].args.depth \in 1..3 /\ asked[i].args.depth = call.depth
  /\ call.route = "graph" /\ step = "done" =>
       IF call.depth \in 1..3
         THEN /\ reply.status = 200
              /\ InStore(call.movie_id) => AskedOf("subgraph_query") # {}
         ELSE reply.status = 422 /\ asked = <<>>
  /\ call.route = "graph" /\ call.depth \notin 1..3 => step = "done"
  /\ WithinThreeHops

\* a request with the depth 4 for a movie of the store was refused
C15_Witness ==
  /\ call.route = "graph"
  /\ step = "done"
  /\ call.depth = 4
  /\ InStore(call.movie_id)
  /\ store.edges # {}
  /\ reply.status = 422

(***************************************************************************)
(* C16                                                                     *)
(***************************************************************************)
\* the nodes of the store the filter of a logged lookup matches
Matches(id, original_id) ==
  { n \in NodeKeys :
      \/ Id(store, n) = id
      \/ HasOriginalId(store, n) /\ OriginalId(store, n) = original_id }

\* the movie of the store an identifier of either form names
TheMovie(id) == { n \in MovieKeys : MovieNumber[n] = NumberOf(id) }

\* the identifiers a request names movies by
RequestIds ==
  IF call.route \in {"graph", "recommendations"} THEN {call.movie_id}
  ELSE IF call.route = "analytics" THEN {call.context.source, call.context.target} \ {""}
  ELSE {}

\* C16: an identifier in the canonical form "movie_N" and in the legacy form
\* "N" resolve to the same single node, the movie N of the store, in
\* get_graph_data, find_similar_movies and find_shortest_path, however the
\* store keys the movie; normalizing an identifier twice changes nothing.
C16_SameNode ==
  /\ \A id \in RequestIds : normalize(normalize(id)) = normalize(id)
  /\ \A i \in AskedOf("movie_query") :
       /\ asked[i].args.id = "movie_" \o NumberOf(call.movie_id)
       /\ asked[i].args.original_id = NumberOf(call.movie_id)
       /\ Matches(asked[i].args.id, asked[i].args.original_id) = TheMovie(call.movie_id)
       /\ Cardinality(TheMovie(call.movie_id)) <= 1
       /\ IF TheMovie(call.movie_id) = {} THEN central = "" ELSE central \in TheMovie(call.movie_id)
  /\ \A i \in AskedOf("path_query") :
       /\ asked[i].args.id = "movie_" \o NumberOf(call.context.source)
       /\ asked[i].args.original_id = NumberOf(call.context.source)
       /\ asked[i].args.target_id = "movie_" \o NumberOf(call.context.target)
       /\ asked[i].args.target_original_id = NumberOf(call.context.target)
       /\ Matches(asked[i].args.id, asked[i].args.original_id) = TheMovie(call.context.source)
       /\ Matches(asked[i].args.target_id, asked[i].args.target_original_id)
            = TheMovie(call.context.target)
       /\ Cardinality(TheMovie(call.context.source)) <= 1
       /\ Cardinality(TheMovie(call.context.target)) <= 1

\* the legacy form "1" resolved to movie 1 where the store keys it under
\* "movie_1" and keeps no original_id
C16_Witness ==
  /\ call.route \in {"graph", "recommendations"}
  /\ call.movie_id = "1"
  /\ StorageLayouts[store.layout]["m1"] = "canonical"
  /\ central = "m1"

(***************************************************************************)
(* C17                                                                     *)
(***************************************************************************)
\* the popularity of the movie an entry of a recommendation list names
PopularityOf(entry) == Popularity[CHOOSE n \in NodeKeys : Id(store, n) = entry.id]

\* C17: a recommendation list is sorted by descending score, and entries of
\* equal score by descending popularity.
C17_SortedByScoreThenPopularity ==
  Served("recommendations") =>
    LET list == reply.body.recommendations
    IN  \A i, j \in 1..Len(list) : i < j =>
          /\ AtLeast(list[i].similarity, list[j].similarity)
          /\ AtLeast(list[j].similarity, list[i].similarity) =>
               PopularityOf(list[i]) >= PopularityOf(list[j])

(***************************************************************************)
(* C18                                                                     *)
(***************************************************************************)
\* the genres the store gives the movie of identifier id
GenreSet(id) ==
  { e.to : e \in { d \in store.edges :
                     /\ Id(store, d.from) = id
                     /\ d.type = "belongs_to"
                     /\ NodeType[d.to] = "genre" } }

\* C18: the score of an entry of a genre-overlap list is the number of genres
\* the movie shares with the source divided by the number of genres either of
\* them has; it lies between 0 and 1 and is at least 0.3.
C18_JaccardScore ==
  Served("recommendations") =>
    \A i \in 1..Len(reply.body.recommendations) :
      LET entry == reply.body.recommendations[i]
          A == GenreSet(entry.id)
          B == GenreSet(Id(store, central))
      IN  entry.reason # "Direct similarity" =>
            /\ entry.similarity.num * Cardinality(A \cup B)
                 = Cardinality(A \cap B) * entry.similarity.den
            /\ entry.similarity.num >= 0
            /\ entry.similarity.num <= entry.similarity.den
            /\ 10 * Cardinality(A \cap B) >= 3 * Cardinality(A \cup B)

(***************************************************************************)
(* C19                                                                     *)
(***************************************************************************)
\* the similar_to edges out of the source movie that meet the threshold
Qualifying ==
  { e \in store.edges :
      /\ e.from = central
      /\ e.type = "similar_to"
      /\ e.similarity >= call.threshold }

\* the entries of the answer that come from similar_to edges
DirectEntries ==
  { i \in 1..Len(reply.body.recommendations) :
      reply.body.recommendations[i].reason = "Direct similarity" }

\* C19: find_similar_movies answers with entries of direct similarity only,
\* and asks for no genres, when a similar_to edge out of the source meets the
\* threshold; otherwise it answers with what get_recommendations_by_genre
\* finds for the source, movies that share a genre with it; the two kinds of
\* entries never come in one list.
C19_FallbackIffNoDirect ==
  call.route = "recommendations" /\ central # "" =>
    /\ AskedOf("genre_query") # {} => Qualifying = {}
    /\ step = "done" =>
         LET list == reply.body.recommendations
         IN  IF Qualifying # {}
               THEN /\ list # <<>>
                    /\ DirectEntries = 1..Len(list)
                    /\ \A i \in 1..Len(list) :
                         \E e \in Qualifying :
                           /\ Id(store, e.to) = list[i].id
                           /\ list[i].similarity = [num |-> e.similarity, den |-> 10]
                    /\ AskedOf("genre_query") = {}
               ELSE /\ DirectEntries = {}
                    /\ AskedOf("genre_query") # {}
                    /\ \A i \in 1..Len(list) :
                         /\ GenreSet(list[i].id) \cap GenreSet(Id(store, central)) # {}
                         /\ list[i].id # Id(store, central)

\* the source has a similar_to edge below the threshold and the answer is a
\* list of movies that share a genre with it
C19_Witness ==
  /\ call.route = "recommendations"
  /\ step = "done"
  /\ central # ""
  /\ \E e \in store.edges : e.from = central /\ e.type = "similar_to"
  /\ Qualifying = {}
  /\ reply.body.recommendations # <<>>
  /\ DirectEntries = {}

(***************************************************************************)
(* C20                                                                     *)
(***************************************************************************)
\* the request asks POST /analytics for a path, with a context that names
\* no source or no target
PathRequestWithoutNodes ==
  /\ call.route = "analytics"
  /\ LET low == Lower(call.query)
     IN  /\ ~Contains("pagerank", low)
         /\ ~Contains("communit", low)
         /\ Contains("path", low) \/ Contains("route", low)
  /\ ~call.context.none
  /\ call.context.source = "" \/ call.context.target = ""

\* C20: a path request without a source or a target is answered with the
\* client error 400, not with a server error, and find_shortest_path is not
\* called.
C20_MissingNodesAre400 ==
  PathRequestWithoutNodes /\ step = "done" =>
    /\ reply.status = 400
    /\ AskedOf("path_query") = {}

(***************************************************************************)
(* C24                                                                     *)
(***************************************************************************)
\* C24: no two entries of the nodes of a graph view have the same id: a node
\* reached by paths of different lengths is listed once, and the central
\* movie is not listed again among the traversed nodes.
C24_DistinctNodes ==
  Served("graph") =>
    \A i, j \in 1..Len(reply.body.nodes) :
      reply.body.nodes[i].id = reply.body.nodes[j].id => i = j

(***************************************************************************)
(* C26                                                                     *)
(***************************************************************************)
\* C26: the header of the list handle_empty_results answers with fits the
\* template it issued: "Here are some movies with their genres" only after
\* the popular-movies-with-genres template, a "popular movies" header only
\* after the popular-movies template.
C26_HeaderMatchesTemplate ==
  /\ response = "fallback_with_genres" =>
       issued[Len(issued)].name = "template_popular_with_genres"
  /\ response \in {"fallback_popular_interested", "fallback_popular_database"} =>
       issued[Len(issued)].name = "template_popular"

(***************************************************************************)
(* C22                                                                     *)
(***************************************************************************)
\* the store has a path of edges, each followed from _from to _to, from the
\* movie the request names as source to the one it names as target
PathInStore ==
  \E n \in TheMovie(call.context.source) : \E m \in TheMovie(call.context.target) :
    m \in Within(store, n, Cardinality(NodeKeys))

\* C22: when the store has a path, find_shortest_path answers path_exists
\* true, a path of items from the source to the target and path_length one
\* less than the number of items, every item but the last with an edge; when
\* it has none, it answers path_exists false, an empty path and no
\* path_length.
C22_PathShape ==
  call.route = "analytics" /\ step = "done" /\ AskedOf("path_query") # {} =>
    /\ reply.status = 200
    /\ LET r == reply.body.result
       IN  IF PathInStore
             THEN /\ r.path_exists
                  /\ Len(r.path) >= 1
                  /\ r.path[1].id = Id(store, central)
                  /\ r.path_length = Len(r.path) - 1
                  /\ \A i \in 1..Len(r.path) : ("edge" \in DOMAIN r.path[i]) <=> i < Len(r.path)
             ELSE /\ ~r.path_exists
                  /\ r.path = <<>>
                  /\ "path_length" \notin DOMAIN r

(***************************************************************************)
(* C25                                                                     *)
(***************************************************************************)
\* C25: every entry of the answer of GET /recommendations has a score of at
\* least the threshold of the request, whether it comes from a similar_to
\* edge or from shared genres, and the answer has at most limit entries.
C25_AtLeastThreshold ==
  Served("recommendations") =>
    /\ Len(reply.body.recommendations) <= call.limit
    /\ \A i \in 1..Len(reply.body.recommendations) :
         AtLeast(reply.body.recommendations[i].similarity,
                 [num |-> call.threshold, den |-> 10])

(***************************************************************************)
(* C28                                                                     *)
(***************************************************************************)
\* the request asks POST /analytics for the pagerank, the communities or the
\* centrality of the graph
AnalysisRequest ==
  /\ call.route = "analytics"
  /\ LET low == Lower(call.query)
     IN  \/ Contains("pagerank", low)
         \/ Contains("communit", low)
         \/ ~Contains("path", low) /\ ~Contains("route", low) /\ Contains("central", low)

\* C28: an analysis request whose context is absent, or has no limit or no
\* algorithm, is answered with 200 and runs with the default: a limit of 10,
\* the algorithm "louvain".
C28_ServedWithDefaults ==
  AnalysisRequest /\ step = "done" =>
    /\ reply.status = 200
    /\ Len(asked) = 1
    /\ (call.context.none \/ call.context.limit = -1) /\ "limit" \in DOMAIN asked[1].args =>
         asked[1].args.limit = 10
    /\ (call.context.none \/ call.context.algorithm = "") /\ "algorithm" \in DOMAIN asked[1].args =>
         asked[1].args.algorithm = "louvain"

(***************************************************************************)
(* C27                                                                     *)
(***************************************************************************)
\* the lists of the answer to a pagerank or a centrality request
ScoreLists ==
  IF reply.body.type = "pagerank" THEN {reply.body.result}
  ELSE {reply.body.result.degree, reply.body.result.betweenness, reply.body.result.closeness}

\* the score of an entry of such a list
ScoreOf(entry) == IF "pagerank" \in DOMAIN entry THEN entry.pagerank ELSE entry.centrality

\* C27: the list of calculate_pagerank and every list of calculate_centrality
\* names movie nodes only, never the genre or tag at the other end of an
\* edge, in descending order of score, and has at most limit entries.
C27_MoviesByScore ==
  Served("analytics") /\ reply.body.type \in {"pagerank", "centrality"} =>
    \A list \in ScoreLists :
      /\ \A i \in 1..Len(list) : \E n \in MovieKeys : list[i].id = Id(store, n)
      /\ \A i, j \in 1..Len(list) : i < j => AtLeast(ScoreOf(list[i]), ScoreOf(list[j]))
      /\ Len(list) <= IF call.context.limit = -1 THEN 10 ELSE call.context.limit

\* the pagerank of a graph with a genre at the end of an edge was asked with
\* a limit of two: two of the three movies are listed, the higher score first
C27_Witness ==
  /\ Served("analytics")
  /\ reply.body.type = "pagerank"
  /\ call.context.limit = 2
  /\ \E e \in store.edges : e.type = "belongs_to"
  /\ Len(reply.body.result) = 2
  /\ ~AtLeast(reply.body.result[2].pagerank, reply.body.result[1].pagerank)

(***************************************************************************)
(* C23                                                                     *)
(***************************************************************************)
\* C23: the communities are labelled community_0, community_1, ... in this
\* order, no community has more members than the one before it, and every
\* movie of the graph is a member of exactly one community, once.
C23_CommunitiesBySize ==
  Served("analytics") /\ reply.body.type = "communities" =>
    LET r == reply.body.result
    IN  /\ \A i \in 1..Len(r) : r[i].label = "community_" \o ToString(i - 1)
        /\ \A i \in 1..(Len(r) - 1) : Len(r[i].members) >= Len(r[i + 1].members)
        /\ \A n \in MovieKeys :
             Cardinality({ m \in (1..Len(r)) \X (1..Cardinality(MovieKeys)) :
                             /\ m[2] <= Len(r[m[1]].members)
                             /\ r[m[1]].members[m[2]].id = Id(store, n) }) = 1

\* the movies were put into two communities, one of two movies and one of
\* one: the community of two is community_0
C23_Witness ==
  /\ Served("analytics")
  /\ reply.body.type = "communities"
  /\ Len(reply.body.result) = 2
  /\ Len(reply.body.result[1].members) = 2
  /\ Len(reply.body.result[2].members) = 1
  /\ reply.body.result[1].label = "community_0"

(***************************************************************************)
(* C29                                                                     *)
(***************************************************************************)
\* C29: no entry of the list of get_personalized_recommendations is a movie
\* the caller likes, in whichever form the caller names it and under
\* whichever identifier the store keeps it; with a first or a last year
\* given, every entry has a year and it is within them.
C29_NoLikedMovie ==
  Served("personalized") =>
    \A i \in 1..Len(reply.body.recommendations) :
      LET entry == reply.body.recommendations[i]
      IN  /\ \A m \in call.preferences.liked_movies :
               \A n \in TheMovie(m) : entry.id # Id(store, n)
          /\ call.preferences.min_year # 0 =>
               entry.year # 0 /\ entry.year >= call.preferences.min_year
          /\ call.preferences.max_year # 0 =>
               entry.year # 0 /\ entry.year <= call.preferences.max_year

(***************************************************************************)
(* C21                                                                     *)
(***************************************************************************)
\* C21: every entry of a list of recommendations, of find_similar_movies,
\* of the movies that share genres and of get_personalized_recommendations,
\* has an id, a title, a year, a score in numbers and a reason that is not
\* empty; a movie without a title is entered as "Unknown", one without a
\* year or a legacy identifier with none.
C21_EntryFields ==
  Served("recommendations") \/ Served("personalized") =>
    \A i \in 1..Len(reply.body.recommendations) :
      LET entry == reply.body.recommendations[i]
      IN  /\ {"id", "title", "year", "reason"} \subseteq DOMAIN entry
          /\ \E score \in {"similarity", "similarity_score", "combined_score", "score"} :
               /\ score \in DOMAIN entry
               /\ entry[score].den > 0
          /\ entry.reason # ""
          /\ \A n \in MovieKeys : entry.id = Id(store, n) =>
               /\ entry.title = IF Title[n] = "" THEN "Unknown" ELSE Title[n]
               /\ entry.year = Year[n]
               /\ entry.original_id = IF HasOriginalId(store, n) THEN MovieNumber[n] ELSE ""

====
